---- MODULE Spec2Model ----
(***************************************************************************)
(* Particle Playground (src/app/page.tsx): the particle store, the eight   *)
(* force-field modes, the integrator, the trail tracker and the frame      *)
(* driver, together with the React effects that start and stop the loop.   *)
(*                                                                         *)
(* Numbers are JavaScript doubles in the source.  Here they are fixed      *)
(* point integers in units of 1/1000 (1.0 is 1000), with one extra value   *)
(* NaN that propagates through arithmetic and makes every comparison       *)
(* false, as IEEE-754 NaN does.                                            *)
(***************************************************************************)
EXTENDS Integers, Sequences, FiniteSets, TLC

VARIABLES
    mounted,        \* the component is mounted (canvasRef.current is not null)
    canvas,         \* [width, height] of the canvas element
    particles,      \* particlesRef.current
    mouse,          \* mouseRef.current
    time,           \* timeRef.current
    fps,            \* fpsRef.current
    mode, particleCount, audioEnabled, showTrails, showStats, bloom,
    colorShift, turbulence, interactionRadius,      \* React state
    analyser,       \* analyserRef.current and dataArrayRef.current are set
    animationRef,   \* animationRef.current (0 stands for null)
    pendingFrames,  \* handles of the requestAnimationFrame callbacks not yet run
    nextHandle,     \* the handle the next requestAnimationFrame call returns
    nextId,         \* identity of the next Particle object that is created
    ticks,          \* number of completed increments of timeRef (line 324)
    avgAudio,       \* avgAudio of the last execution of render
    bars,           \* fillRect calls of the spectrum in the last execution of render
    last            \* the handler that ran last

vars == << mounted, canvas, particles, mouse, time, fps, mode, particleCount,
           audioEnabled, showTrails, showStats, bloom, colorShift, turbulence,
           interactionRadius, analyser, animationRef, pendingFrames,
           nextHandle, nextId, ticks, avgAudio, bars, last >>

(***************************************************************************)
(* Fixed point arithmetic with NaN                                         *)
(***************************************************************************)
NaN == 0 - 2000000000

Abs(a) == IF a < 0 THEN 0 - a ELSE a

\* integer quotient rounded toward zero, b > 0
TruncDiv(a, b) == IF a >= 0 THEN a \div b ELSE 0 - ((0 - a) \div b)

Add(a, b) == IF a = NaN \/ b = NaN THEN NaN ELSE a + b

Sub(a, b) == IF a = NaN \/ b = NaN THEN NaN ELSE a - b

Neg(a) == IF a = NaN THEN NaN ELSE 0 - a

\* |a| * |b| / 1000 without leaving 32 bits: the larger factor is split
MulAbs(big, small) == (big \div 1000) * small + ((big % 1000) * small) \div 1000

Mul(a, b) ==
    IF a = NaN \/ b = NaN THEN NaN
    ELSE LET m == IF Abs(a) >= Abs(b) THEN MulAbs(Abs(a), Abs(b))
                  ELSE MulAbs(Abs(b), Abs(a))
         IN  IF (a < 0) = (b < 0) THEN m ELSE 0 - m

\* a / b; the only zero divisor the source can meet is 0 / 0, which is NaN
Div(a, b) ==
    IF a = NaN \/ b = NaN THEN NaN
    ELSE IF a = 0 /\ b = 0 THEN NaN
    ELSE LET q == (Abs(a) \div Abs(b)) * 1000 + ((Abs(a) % Abs(b)) * 1000) \div Abs(b)
         IN  IF (a < 0) = (b < 0) THEN q ELSE 0 - q

Lt(a, b) == a # NaN /\ b # NaN /\ a < b

Gt(a, b) == a # NaN /\ b # NaN /\ a > b

\* Math.min(a, b)
MathMin(a, b) == IF a = NaN \/ b = NaN THEN NaN ELSE IF a < b THEN a ELSE b

\* a % m for a >= 0, m > 0
Rem(a, m) == IF a = NaN THEN NaN ELSE a % m

RECURSIVE IsqrtFrom(_, _)
IsqrtFrom(n, r) ==
    LET s == (r + n \div r) \div 2
    IN  IF s >= r THEN r ELSE IsqrtFrom(n, s)

\* floor of the square root of the integer n >= 0 (Newton iteration)
Isqrt(n) == IF n = 0 THEN 0 ELSE IsqrtFrom(n, n)

\* Math.sqrt(a * a + b * b); zero exactly when a = b = 0
RECURSIVE Hypot(_, _)
Hypot(a, b) ==
    IF a = NaN \/ b = NaN THEN NaN
    ELSE IF Abs(a) <= 30000 /\ Abs(b) <= 30000 THEN Isqrt(a * a + b * b)
    ELSE 10 * Hypot(TruncDiv(a, 10), TruncDiv(b, 10))

\* sin on [0, pi] (Bhaskara's rational approximation), x in 1/1000 radian
SinHalf(x) ==
    LET p == (x * (3142 - x)) \div 100
    IN  (16000 * p) \div (493608 - 4 * p)

\* Math.sin
Sin(a) ==
    IF a = NaN THEN NaN
    ELSE LET r == a % 6284
         IN  IF r <= 3142 THEN SinHalf(r) ELSE 0 - SinHalf(r - 3142)

\* Math.cos
Cos(a) == IF a = NaN THEN NaN ELSE Sin(a + 1571)

(***************************************************************************)
(* Program constants                                                       *)
(***************************************************************************)
TrailMax == 10

TimeStep == 16

Modes == { "gravity", "repulsion", "vortex", "wave", "flow", "attractor",
           "chaos", "aurora" }

(***************************************************************************)
(* Particle store: initParticles                                           *)
(***************************************************************************)
\* one Particle object; d holds the seven Math.random() results in call order
NewParticle(d, canv, id) ==
    [ id         |-> id,
      x          |-> Mul(d[1], canv.width),
      y          |-> Mul(d[2], canv.height),
      vx         |-> Mul(d[3] - 500, 2000),
      vy         |-> Mul(d[4] - 500, 2000),
      ax         |-> 0,
      ay         |-> 0,
      life       |-> 1000,
      maxLife    |-> 1000,
      size       |-> Mul(d[5], 3000) + 1000,
      hue        |-> Mul(d[6], 360000),
      brightness |-> Mul(d[7], 50000) + 50000,
      trail      |-> << >> ]

\* initParticles whose loop stops one particle early
initParticlesShort(count, canv, draws, firstId) ==
    [ i \in 1..(count - 1) |-> NewParticle(draws[i], canv, firstId + i - 1) ]

\* initParticles(count, canvas); the objects get the identities firstId, ...
initParticles(count, canv, draws, firstId) ==
    [ i \in 1..count |-> NewParticle(draws[i], canv, firstId + i - 1) ]

(***************************************************************************)
(* Force field: the switch (mode) of applyForces                           *)
(***************************************************************************)
\* cos(atan2(dy, dx) + PI / 2) = -sin(atan2(dy, dx)) = -dy / dist
CosTurned(dx, dy, dist) == Neg(Div(dy, dist))

\* sin(atan2(dy, dx) + PI / 2) = cos(atan2(dy, dx)) = dx / dist
SinTurned(dx, dy, dist) == Div(dx, dist)

\* the four attractor points of the attractor mode
Attractors(canv) ==
    << [ x |-> Mul(canv.width, 250), y |-> Mul(canv.height, 500) ],
       [ x |-> Mul(canv.width, 750), y |-> Mul(canv.height, 500) ],
       [ x |-> Mul(canv.width, 500), y |-> Mul(canv.height, 250) ],
       [ x |-> Mul(canv.width, 500), y |-> Mul(canv.height, 750) ] >>

\* what one attractor adds to (ax, ay)
AttractorPull(p, a) ==
    LET adx   == Sub(a.x, p.x)
        ady   == Sub(a.y, p.y)
        adist == Hypot(adx, ady)
        force == Mul(Div(500000, adist), 100)
    IN  IF Gt(adist, 0)
        THEN << Mul(Div(adx, adist), force), Mul(Div(ady, adist), force) >>
        ELSE << 0, 0 >>

GravityAcc(dx, dy, dist, down, radius, audioForce) ==
    LET ay0   == Add(0, Add(100, Mul(audioForce, 500)))
        force == Div(Sub(radius, dist), radius)
    IN  IF down /\ Lt(dist, radius)
        THEN << Sub(0,   Mul(Mul(Div(dx, dist), force), 2000)),
                Sub(ay0, Mul(Mul(Div(dy, dist), force), 2000)) >>
        ELSE << 0, ay0 >>

RepulsionAcc(dx, dy, dist, radius, turb, rnd) ==
    LET force == Div(Sub(radius, dist), radius)
        push  == IF Lt(dist, radius) /\ Gt(dist, 0)
                 THEN << Mul(Mul(Div(dx, dist), force), 3000),
                         Mul(Mul(Div(dy, dist), force), 3000) >>
                 ELSE << 0, 0 >>
    IN  << Add(push[1], Mul(rnd[1] - 500, turb)),
           Add(push[2], Mul(rnd[2] - 500, turb)) >>

VortexAcc(dx, dy, dist, radius, audioForce) ==
    LET vortexStrength == Add(500, audioForce)
    IN  IF Lt(dist, Mul(radius, 2000)) /\ Gt(dist, 0)
        THEN << Sub(Sub(0, Mul(CosTurned(dx, dy, dist), vortexStrength)),
                    Mul(Div(dx, dist), 100)),
                Sub(Sub(0, Mul(SinTurned(dx, dy, dist), vortexStrength)),
                    Mul(Div(dy, dist), 100)) >>
        ELSE << 0, 0 >>

WaveAcc(p, t, audioForce) ==
    << Mul(Cos(Add(Mul(p.y, 10), Mul(t, 30))), 500),
       Add(Mul(Sin(Add(Mul(p.x, 10), Mul(t, 50))), 500),
           Mul(audioForce, Sin(Mul(t, 100)))) >>

FlowAcc(p, t) ==
    LET noiseX == Mul(Sin(Add(Mul(p.x, 5), Mul(t, 20))), Cos(Mul(p.y, 3)))
        noiseY == Mul(Cos(Add(Mul(p.x, 3), Mul(t, 10))), Sin(Mul(p.y, 5)))
    IN  << Mul(noiseX, 2000), Mul(noiseY, 2000) >>

AttractorAcc(p, canv) ==
    LET a  == Attractors(canv)
        c1 == AttractorPull(p, a[1])
        c2 == AttractorPull(p, a[2])
        c3 == AttractorPull(p, a[3])
        c4 == AttractorPull(p, a[4])
    IN  << Add(Add(Add(Add(0, c1[1]), c2[1]), c3[1]), c4[1]),
           Add(Add(Add(Add(0, c1[2]), c2[2]), c3[2]), c4[2]) >>

ChaosAcc(p, t, audioForce, rnd) ==
    << Add(Mul(Sin(Add(Mul(t, 100), Mul(p.x, 10))), 5000),
           Mul(Mul(rnd[1] - 500, audioForce), 10000)),
       Add(Mul(Cos(Add(Mul(t, 150), Mul(p.y, 10))), 5000),
           Mul(Mul(rnd[2] - 500, audioForce), 10000)) >>

AuroraAcc(p, canv, t, audioForce) ==
    LET waveY        == Add(Mul(Sin(Add(Mul(p.x, 3), Mul(t, 20))), 100000),
                            Mul(canv.height, 300))
        distFromWave == Sub(p.y, waveY)
    IN  << Add(Mul(Cos(Add(Mul(p.y, 5), Mul(t, 30))), 300),
               Mul(Mul(Sin(Add(Mul(t, 50), Mul(p.x, 2))), audioForce), 2000)),
           Mul(Neg(distFromWave), 1) >>

\* (ax, ay) after the switch; c is the context the closure reads
Acceleration(p, canv, audioData, c, rnd) ==
    LET dx         == Sub(p.x, c.mouse.x)
        dy         == Sub(p.y, c.mouse.y)
        dist       == Hypot(dx, dy)
        audioForce == Div(audioData, 255000)
    IN  CASE c.mode = "gravity"   ->
               GravityAcc(dx, dy, dist, c.mouse.down, c.interactionRadius, audioForce)
          [] c.mode = "repulsion" ->
               RepulsionAcc(dx, dy, dist, c.interactionRadius, c.turbulence, rnd)
          [] c.mode = "vortex"    ->
               VortexAcc(dx, dy, dist, c.interactionRadius, audioForce)
          [] c.mode = "wave"      -> WaveAcc(p, c.time, audioForce)
          [] c.mode = "flow"      -> FlowAcc(p, c.time)
          [] c.mode = "attractor" -> AttractorAcc(p, canv)
          [] c.mode = "chaos"     -> ChaosAcc(p, c.time, audioForce, rnd)
          [] c.mode = "aurora"    -> AuroraAcc(p, canv, c.time, audioForce)

(***************************************************************************)
(* Integrator                                                              *)
(***************************************************************************)
\* boundary handling on one axis: << position, velocity >>
Boundary(x1, v1, limit) ==
    IF Lt(x1, 0) THEN << 0, Mul(v1, 0 - 500) >>
    ELSE IF Gt(x1, limit) THEN << limit, Mul(v1, 0 - 500) >>
    ELSE << x1, v1 >>

\* position update with the new velocity v1, then the boundary handling
Advance(pos, v1, limit) == Boundary(Add(pos, v1), v1, limit)

\* the integration with the friction applied after the acceleration is added
IntegrateAxisDamped(pos, vel, acc, limit) ==
    Advance(pos, Mul(Add(vel, acc), 990), limit)

\* friction, velocity and position update, boundary handling on one axis:
\* << position, velocity >>
IntegrateAxis(pos, vel, acc, limit) ==
    Advance(pos, Add(Mul(vel, 990), acc), limit)

(***************************************************************************)
(* Trail and appearance                                                    *)
(***************************************************************************)
\* a shift that drops the newest entry instead of the oldest
ShiftNewest(trail) == SubSeq(trail, 1, Len(trail) - 1)

\* particle.trail.shift()
Shift(trail) == Tail(trail)

\* push, shift when longer than 10, decay of every alpha
UpdateTrail(trail, x, y) ==
    LET pushed == Append(trail, [ x |-> x, y |-> y, alpha |-> 1000 ])
        kept   == IF Len(pushed) > TrailMax THEN Shift(pushed) ELSE pushed
    IN  [ i \in 1..Len(kept) |-> [ kept[i] EXCEPT !.alpha = Mul(@, 900) ] ]

\* hue and brightness from the speed
Appearance(q, speed, audioForce, c) ==
    [ q EXCEPT
        !.hue = Rem(Add(Add(Mul(speed, 20000), c.colorShift), Mul(c.time, 500)),
                    360000),
        !.brightness = MathMin(100000, Add(Add(50000, Mul(speed, 10000)),
                                           Mul(audioForce, 50000))) ]

\* the particle with its new motion (hx, hy: position and velocity per axis)
Moved(p, acc, hx, hy, audioForce, c) ==
    Appearance([ p EXCEPT
                   !.ax = acc[1], !.ay = acc[2],
                   !.x = hx[1], !.vx = hx[2],
                   !.y = hy[1], !.vy = hy[2],
                   !.trail = IF c.showTrails THEN UpdateTrail(@, hx[1], hy[1]) ELSE @ ],
               Hypot(hx[2], hy[2]), audioForce, c)

\* the particle after the switch has produced the acceleration acc
Integrate(p, canv, acc, audioForce, c) ==
    Moved(p, acc, IntegrateAxis(p.x, p.vx, acc[1], canv.width),
          IntegrateAxis(p.y, p.vy, acc[2], canv.height), audioForce, c)

\* applyForces(particle, canvas, audioData)
applyForces(p, canv, audioData, c, rnd) ==
    Integrate(p, canv, Acceleration(p, canv, audioData, c, rnd),
              Div(audioData, 255000), c)

(***************************************************************************)
(* Frame driver: render and animate                                        *)
(***************************************************************************)
\* createRadialGradient and arc throw a TypeError on a non-finite argument
Drawable(p, bloomV) ==
    /\ p.x # NaN
    /\ p.y # NaN
    /\ Mul(p.size, IF bloomV THEN 3000 ELSE 1000) # NaN

\* the forEach of render from particle i on: the particles as the loop leaves
\* them, and whether a draw call threw (which ends the loop and the tick)
RECURSIVE RenderFrom(_, _, _, _, _, _)
RECURSIVE Draw(_, _, _, _, _, _, _)
\* particle i has become q: draw it and go on, or throw
Draw(ps, i, q, canv, audioData, c, rnds) ==
    IF Drawable(q, c.bloom)
    THEN RenderFrom([ ps EXCEPT ![i] = q ], i + 1, canv, audioData, c, rnds)
    ELSE [ ps |-> [ ps EXCEPT ![i] = q ], threw |-> TRUE ]

RenderFrom(ps, i, canv, audioData, c, rnds) ==
    IF i > Len(ps) THEN [ ps |-> ps, threw |-> FALSE ]
    ELSE Draw(ps, i, applyForces(ps[i], canv, audioData, c, rnds[i]),
              canv, audioData, c, rnds)

\* render(ctx, canvas)
render(ps, canv, audioData, c, rnds) == RenderFrom(ps, 1, canv, audioData, c, rnds)

\* what the animate closure read when it was created, plus the refs it reads
Closure(par, mouseV, timeV) ==
    [ mode              |-> par.mode,
      showTrails        |-> par.showTrails,
      bloom             |-> par.bloom,
      colorShift        |-> par.colorShift,
      turbulence        |-> par.turbulence,
      interactionRadius |-> par.interactionRadius,
      mouse             |-> mouseV,
      time              |-> timeV ]

\* the React state of the component
Params ==
    [ mode |-> mode, particleCount |-> particleCount, audioEnabled |-> audioEnabled,
      showTrails |-> showTrails, showStats |-> showStats, bloom |-> bloom,
      colorShift |-> colorShift, turbulence |-> turbulence,
      interactionRadius |-> interactionRadius ]

\* a cleanup that leaves the pending frame alone
CancelNothing(pending, ref) == pending

\* cancelAnimationFrame(animationRef.current) of the cleanup
CancelFrame(pending, ref) == IF ref # 0 THEN pending \ { ref } ELSE pending

(***************************************************************************)
(* Bounds and the inputs the environment supplies                          *)
(***************************************************************************)
MaxTicks == 2          \* executions of animate explored with every handler

LoopTicks == 2         \* executions of animate explored for the frame loop

TrailTicks == 12       \* executions of animate explored for the trail

AudioTicks == 3        \* increments of timeRef in the audio specification
MaxSpace == 1          \* Particle objects space may add to those of a mount

InitialCount == 1      \* particles at mount (the slider's scale is not kept)

Counts == { 1, 2 }

Sizes == { [ width |-> 400000, height |-> 200000 ],
           [ width |-> 200000, height |-> 200000 ] }

\* the seven Math.random() results that make one particle
ParticleDraws ==
    { << 250, 500, 500, 500, 500, 500, 500 >>,
      <<   0,   0, 500, 500,   0,   0,   0 >>,
      <<   0, 999,   0, 999, 999, 999, 999 >> }

\* the two Math.random() results applyForces may use for one particle
NoisePairs == { << 0, 999 >>, << 500, 500 >> }

NoiseFor(m) == IF m \in { "repulsion", "chaos" } THEN NoisePairs ELSE { << 500, 500 >> }

\* milliseconds between two executions of animate
Deltas == { 16, 33 }

\* average of the analyser's byte frequency data
AudioLevels == { 0, 128000 }

MousePoints == { << 100000, 100000 >> }

ColorShifts == { 0, 90000 }

Turbulences == { 500, 0 }

Radii == { 150000, 50000 }

(***************************************************************************)
(* State after the component has mounted and both effects have run         *)
(***************************************************************************)
\* avgAudio of render sampled whether or not an analyser is attached
LevelsForAny(enabled, attached) == AudioLevels

\* avgAudio of render: sampled only when audio is enabled and attached
LevelsFor(enabled, attached) == IF enabled /\ attached THEN AudioLevels ELSE { 0 }

\* analyser.fftSize
fftSize == 256

\* analyser.frequencyBinCount, the length of dataArray
frequencyBinCount == fftSize \div 2

\* the fillRect calls of the spectrum: one per bin when audio is enabled and
\* attached; none when a draw call of the particle loop threw before
Spectrum(enabled, attached, threw) ==
    IF ~threw /\ enabled /\ attached THEN frequencyBinCount ELSE 0

Init ==
    /\ mounted = TRUE
    /\ canvas \in Sizes
    /\ \E draws \in [ 1..InitialCount -> ParticleDraws ] :
         particles = initParticles(InitialCount, canvas, draws, InitialCount + 1)
    /\ mouse = [ x |-> 0, y |-> 0, down |-> FALSE, vx |-> 0, vy |-> 0 ]
    /\ time = TimeStep
    /\ \E delta \in Deltas : fps = Div(1000000, delta * 1000)
    /\ mode = "gravity"
    /\ particleCount = InitialCount
    /\ audioEnabled = FALSE
    /\ showTrails = TRUE
    /\ showStats = TRUE
    /\ bloom = TRUE
    /\ colorShift = 0
    /\ turbulence = 500
    /\ interactionRadius = 150000
    /\ analyser = FALSE
    /\ animationRef = 1
    /\ pendingFrames = { 1 }
    /\ nextHandle = 2
    /\ nextId = 2 * InitialCount + 1
    /\ ticks = 1
    /\ avgAudio = 0
    /\ bars = 0
    /\ last = "Mount"

(***************************************************************************)
(* The frame callback                                                      *)
(***************************************************************************)
\* animate from line 318 on; r is what render did
Frame(h, delta, level, r) ==
    /\ fps' = Div(1000000, delta * 1000)
    /\ avgAudio' = level
    /\ bars' = Spectrum(audioEnabled, analyser, r.threw)
    /\ time' = time + TimeStep
    /\ ticks' = ticks + 1
    /\ particles' = r.ps
    /\ IF r.threw
       THEN /\ pendingFrames' = pendingFrames \ { h }
            /\ UNCHANGED << animationRef, nextHandle >>
       ELSE /\ pendingFrames' = (pendingFrames \ { h }) \cup { nextHandle }
            /\ animationRef' = nextHandle
            /\ nextHandle' = nextHandle + 1

\* animate, run by the browser for the pending handle h
animate(h) ==
    IF ~mounted
    THEN /\ pendingFrames' = pendingFrames \ { h }
         /\ UNCHANGED << particles, time, fps, ticks, animationRef,
                         nextHandle, avgAudio, bars >>
    ELSE \E delta \in Deltas, level \in LevelsFor(audioEnabled, analyser),
            rnds \in [ 1..Len(particles) -> NoiseFor(mode) ] :
           Frame(h, delta, level,
                 render(particles, canvas, level,
                        Closure(Params, mouse, time + TimeStep), rnds))

TickUpTo(cap) ==
    /\ ticks < cap
    /\ \E h \in pendingFrames : animate(h)
    /\ last' = "Tick"
    /\ UNCHANGED << mounted, canvas, mouse, mode, particleCount, audioEnabled,
                    showTrails, showStats, bloom, colorShift, turbulence,
                    interactionRadius, analyser, nextId >>

(***************************************************************************)
(* A state change, the re-render and the effects it triggers               *)
(***************************************************************************)
\* the setup effect after its cleanup and initParticles: animate() (r is
\* what its render did on the new particles), then the second effect when
\* particleCount changed; n1 is the identity of the next new Particle
Restart(np, attached, delta, level, r, n1) ==
    /\ fps' = Div(1000000, delta * 1000)
    /\ avgAudio' = level
    /\ bars' = Spectrum(np.audioEnabled, attached, r.threw)
    /\ time' = time + TimeStep
    /\ ticks' = ticks + 1
    /\ mounted' = ~r.threw
    /\ IF r.threw
       THEN /\ pendingFrames' = CancelFrame(pendingFrames, animationRef)
            /\ UNCHANGED << animationRef, nextHandle >>
       ELSE /\ pendingFrames' = CancelFrame(pendingFrames, animationRef) \cup { nextHandle }
            /\ animationRef' = nextHandle
            /\ nextHandle' = nextHandle + 1
    /\ IF np.particleCount # particleCount
       THEN \E draws2 \in [ 1..np.particleCount -> ParticleDraws ] :
              /\ particles' = initParticles(np.particleCount, canvas, draws2, n1)
              /\ nextId' = n1 + np.particleCount
       ELSE /\ particles' = r.ps
            /\ nextId' = n1

\* React commits the state np.  animate is re-created (its dependencies are
\* every state but particleCount), so the setup effect is cleaned up and run
\* again: cancel the pending frame, resize, initParticles, animate().  When
\* particleCount changed the second effect then populates the store again.
\* An exception that escapes animate() inside the effect unmounts the tree.
Commit(np, attached, cap) ==
    /\ mounted
    /\ ticks < cap
    /\ np # Params
    /\ mode' = np.mode
    /\ particleCount' = np.particleCount
    /\ audioEnabled' = np.audioEnabled
    /\ showTrails' = np.showTrails
    /\ showStats' = np.showStats
    /\ bloom' = np.bloom
    /\ colorShift' = np.colorShift
    /\ turbulence' = np.turbulence
    /\ interactionRadius' = np.interactionRadius
    /\ analyser' = attached
    /\ \E draws \in [ 1..np.particleCount -> ParticleDraws ], delta \in Deltas,
          level \in LevelsFor(np.audioEnabled, attached),
          rnds \in [ 1..np.particleCount -> NoiseFor(np.mode) ] :
         Restart(np, attached, delta, level,
                 render(initParticles(np.particleCount, canvas, draws, nextId),
                        canvas, level, Closure(np, mouse, time + TimeStep), rnds),
                 nextId + np.particleCount)
    /\ UNCHANGED << canvas, mouse >>

\* key 1-8 or the mode selector
SetMode(m, cap) ==
    /\ Commit([ Params EXCEPT !.mode = m ], analyser, cap)
    /\ last' = "SetMode"

\* the particle count slider
SetParticleCount(n, cap) ==
    /\ Commit([ Params EXCEPT !.particleCount = n ], analyser, cap)
    /\ last' = "SetParticleCount"

SetColorShift(v, cap) ==
    /\ Commit([ Params EXCEPT !.colorShift = v ], analyser, cap)
    /\ last' = "SetColorShift"

SetTurbulence(v, cap) ==
    /\ Commit([ Params EXCEPT !.turbulence = v ], analyser, cap)
    /\ last' = "SetTurbulence"

SetInteractionRadius(v, cap) ==
    /\ Commit([ Params EXCEPT !.interactionRadius = v ], analyser, cap)
    /\ last' = "SetInteractionRadius"

\* key t or the trails checkbox
ToggleTrails(cap) ==
    /\ Commit([ Params EXCEPT !.showTrails = ~showTrails ], analyser, cap)
    /\ last' = "ToggleTrails"

\* key s or the stats checkbox
ToggleStats(cap) ==
    /\ Commit([ Params EXCEPT !.showStats = ~showStats ], analyser, cap)
    /\ last' = "ToggleStats"

\* key b or the bloom checkbox
ToggleBloom(cap) ==
    /\ Commit([ Params EXCEPT !.bloom = ~bloom ], analyser, cap)
    /\ last' = "ToggleBloom"

\* setupAudio, getUserMedia resolved
AudioGranted(cap) ==
    /\ ~audioEnabled
    /\ Commit([ Params EXCEPT !.audioEnabled = TRUE ], TRUE, cap)
    /\ last' = "AudioGranted"

\* setupAudio, getUserMedia rejected: only console.error runs
AudioDenied ==
    /\ mounted
    /\ ~audioEnabled
    /\ last' = "AudioDenied"
    /\ UNCHANGED << mounted, canvas, particles, mouse, time, fps, mode, particleCount,
                    audioEnabled, showTrails, showStats, bloom, colorShift,
                    turbulence, interactionRadius, analyser, animationRef,
                    pendingFrames, nextHandle, nextId, ticks, avgAudio, bars >>

(***************************************************************************)
(* Handlers that change no React state                                     *)
(***************************************************************************)
handleMouseMove(pt) ==
    /\ mounted
    /\ mouse' = [ mouse EXCEPT !.x = pt[1], !.y = pt[2],
                               !.vx = pt[1] - mouse.x, !.vy = pt[2] - mouse.y ]
    /\ last' = "MouseMove"
    /\ UNCHANGED << mounted, canvas, particles, time, fps, mode, particleCount,
                    audioEnabled, showTrails, showStats, bloom, colorShift,
                    turbulence, interactionRadius, analyser, animationRef,
                    pendingFrames, nextHandle, nextId, ticks, avgAudio, bars >>

handleMouseDown ==
    /\ mounted
    /\ mouse' = [ mouse EXCEPT !.down = TRUE ]
    /\ last' = "MouseDown"
    /\ UNCHANGED << mounted, canvas, particles, time, fps, mode, particleCount,
                    audioEnabled, showTrails, showStats, bloom, colorShift,
                    turbulence, interactionRadius, analyser, animationRef,
                    pendingFrames, nextHandle, nextId, ticks, avgAudio, bars >>

handleMouseUp ==
    /\ mounted
    /\ mouse' = [ mouse EXCEPT !.down = FALSE ]
    /\ last' = "MouseUp"
    /\ UNCHANGED << mounted, canvas, particles, time, fps, mode, particleCount,
                    audioEnabled, showTrails, showStats, bloom, colorShift,
                    turbulence, interactionRadius, analyser, animationRef,
                    pendingFrames, nextHandle, nextId, ticks, avgAudio, bars >>

\* the window takes the size sz and the resize listener copies it
resize(sz) ==
    /\ mounted
    /\ canvas' = sz
    /\ last' = "Resize"
    /\ UNCHANGED << mounted, particles, mouse, time, fps, mode, particleCount,
                    audioEnabled, showTrails, showStats, bloom, colorShift,
                    turbulence, interactionRadius, analyser, animationRef,
                    pendingFrames, nextHandle, nextId, ticks, avgAudio, bars >>

\* handleKeyPress, key ' '
Space ==
    /\ mounted
    /\ nextId <= 2 * InitialCount + MaxSpace
    /\ \E draws \in [ 1..particleCount -> ParticleDraws ] :
         particles' = initParticles(particleCount, canvas, draws, nextId)
    /\ nextId' = nextId + particleCount
    /\ last' = "Space"
    /\ UNCHANGED << mounted, canvas, mouse, time, fps, mode, particleCount,
                    audioEnabled, showTrails, showStats, bloom, colorShift,
                    turbulence, interactionRadius, analyser, animationRef,
                    pendingFrames, nextHandle, ticks, avgAudio, bars >>

\* the component unmounts: the cleanup of the setup effect
Unmount ==
    /\ mounted
    /\ mounted' = FALSE
    /\ pendingFrames' = CancelFrame(pendingFrames, animationRef)
    /\ last' = "Unmount"
    /\ UNCHANGED << canvas, particles, mouse, time, fps, mode, particleCount,
                    audioEnabled, showTrails, showStats, bloom, colorShift,
                    turbulence, interactionRadius, analyser, animationRef,
                    nextHandle, nextId, ticks, avgAudio, bars >>

(***************************************************************************)
(* Specifications                                                          *)
(***************************************************************************)
Tick == TickUpTo(MaxTicks)

Next ==
    \/ Tick
    \/ \E m \in Modes : SetMode(m, MaxTicks)
    \/ \E n \in Counts : SetParticleCount(n, MaxTicks)
    \/ \E v \in ColorShifts : SetColorShift(v, MaxTicks)
    \/ \E v \in Turbulences : SetTurbulence(v, MaxTicks)
    \/ \E v \in Radii : SetInteractionRadius(v, MaxTicks)
    \/ ToggleTrails(MaxTicks)
    \/ ToggleStats(MaxTicks)
    \/ ToggleBloom(MaxTicks)
    \/ AudioGranted(MaxTicks)
    \/ AudioDenied
    \/ \E pt \in MousePoints : handleMouseMove(pt)
    \/ handleMouseDown
    \/ handleMouseUp
    \/ \E sz \in Sizes : resize(sz)
    \/ Space
    \/ Unmount

Spec == Init /\ [][Next]_vars

\* the frame loop: the frame callback, every state change, reset, teardown
TickLoop == TickUpTo(LoopTicks)

NextLoop ==
    \/ TickLoop
    \/ \E m \in Modes : SetMode(m, LoopTicks)
    \/ \E n \in Counts : SetParticleCount(n, LoopTicks)
    \/ \E v \in ColorShifts : SetColorShift(v, LoopTicks)
    \/ \E v \in Turbulences : SetTurbulence(v, LoopTicks)
    \/ \E v \in Radii : SetInteractionRadius(v, LoopTicks)
    \/ ToggleTrails(LoopTicks)
    \/ ToggleStats(LoopTicks)
    \/ ToggleBloom(LoopTicks)
    \/ AudioGranted(LoopTicks)
    \/ Space
    \/ Unmount

SpecLoop == Init /\ [][NextLoop]_vars

\* the trail over many ticks: the frame callback and the trails flag
TickTrail == TickUpTo(TrailTicks)

NextTrail ==
    \/ TickTrail
    \/ ToggleTrails(TrailTicks)

SpecTrail == Init /\ [][NextTrail]_vars

\* the audio source: the frame callback, the mode, both outcomes of setupAudio
TickAudio == TickUpTo(AudioTicks)

NextAudio ==
    \/ TickAudio
    \/ \E m \in Modes : SetMode(m, AudioTicks)
    \/ AudioGranted(AudioTicks)
    \/ AudioDenied

SpecAudio == Init /\ [][NextAudio]_vars

(***************************************************************************)
(* Properties                                                              *)
(***************************************************************************)
\* the handlers that execute animate
AnimateHandlers ==
    { "Tick", "SetMode", "SetParticleCount", "SetColorShift", "SetTurbulence",
      "SetInteractionRadius", "ToggleTrails", "ToggleStats", "ToggleBloom",
      "AudioGranted" }

PosOf(trail) == [ i \in 1..Len(trail) |-> << trail[i].x, trail[i].y >> ]

IsPrefix(a, b) == Len(a) <= Len(b) /\ SubSeq(b, 1, Len(a)) = a

\* C1: a mode switch leaves the position, velocity and trail of every
\* particle as they were immediately before it.
ModeSwitchKeepsParticles ==
    [][ last' = "SetMode" =>
          /\ Len(particles') = Len(particles)
          /\ \A i \in 1..Len(particles) :
               /\ particles'[i].x = particles[i].x
               /\ particles'[i].y = particles[i].y
               /\ particles'[i].vx = particles[i].vx
               /\ particles'[i].vy = particles[i].vy
               /\ particles'[i].trail = particles[i].trail ]_vars

\* C2: only a particle count change and the space key replace the
\* population; after every other handler, and after every tick, the store
\* holds the same Particle objects and has the same size.
PopulationReplacedOnlyOnReset ==
    [][ last' \notin { "SetParticleCount", "Space" } =>
          /\ Len(particles') = Len(particles)
          /\ \A i \in 1..Len(particles) : particles'[i].id = particles[i].id ]_vars

\* C3: at the end of every tick every particle lies inside the canvas the
\* tick used: 0 <= x <= width and 0 <= y <= height.
BoundaryClamp ==
    last \in AnimateHandlers =>
        \A i \in 1..Len(particles) :
            /\ particles[i].x # NaN
            /\ particles[i].y # NaN
            /\ 0 <= particles[i].x /\ particles[i].x <= canvas.width
            /\ 0 <= particles[i].y /\ particles[i].y <= canvas.height

\* C4: no tick leaves NaN in the acceleration, velocity or position of a
\* particle (a force whose distance is zero is skipped), and the engine keeps
\* running: while the component is mounted a next frame is pending.
ForcesWellDefined ==
    /\ \A i \in 1..Len(particles) :
         /\ particles[i].ax # NaN /\ particles[i].ay # NaN
         /\ particles[i].vx # NaN /\ particles[i].vy # NaN
         /\ particles[i].x # NaN /\ particles[i].y # NaN
    /\ mounted => pendingFrames # { }

\* the entries of old are still in new, oldest first, but for an evicted one
Keeps(old, new) ==
    \/ IsPrefix(PosOf(old), PosOf(new))
    \/ Len(old) = TrailMax /\ IsPrefix(Tail(PosOf(old)), PosOf(new))

\* C5: with trails disabled a trail is neither updated nor cleared: a tick
\* that runs with trails off leaves every trail as it was, and switching the
\* flag (off or on) keeps the entries the trail held.
TrailsKeptWhileDisabled ==
    [][ /\ (last' = "Tick" /\ ~showTrails) =>
             /\ Len(particles') = Len(particles)
             /\ \A i \in 1..Len(particles) : particles'[i].trail = particles[i].trail
        /\ last' = "ToggleTrails" =>
             /\ Len(particles') = Len(particles)
             /\ \A i \in 1..Len(particles) :
                  Keeps(particles[i].trail, particles'[i].trail) ]_vars

\* the last n elements of the sequence q
LastN(q, n) == IF Len(q) <= n THEN q ELSE SubSeq(q, Len(q) - n + 1, Len(q))

\* C6: a trail never holds more than 10 entries; a tick with trails enabled
\* appends the particle's new position and, when that makes 11, removes
\* exactly the oldest entry, so the trail is, oldest first, the positions of
\* the particle's most recent (up to 10) trail-enabled ticks; a tick with
\* trails disabled, and a handler that runs no tick, leave the trail alone.
TrailBoundedFifo ==
    /\ [](\A i \in 1..Len(particles) : Len(particles[i].trail) <= TrailMax)
    /\ [][ \A i \in 1..Len(particles') :
             LET q   == particles'[i]
                 old == IF i <= Len(particles) /\ particles[i].id = q.id
                        THEN particles[i].trail ELSE << >>
             IN  IF ticks' = ticks + 1 /\ showTrails' /\ last' # "SetParticleCount"
                 THEN /\ PosOf(q.trail) =
                           LastN(Append(PosOf(old), << q.x, q.y >>), TrailMax)
                      /\ \A k \in 1..(Len(q.trail) - 1) :
                           q.trail[k].alpha < q.trail[k + 1].alpha
                 ELSE q.trail = old ]_vars

\* an initial particle has gone through 11 ticks with trails enabled
TrailEvicted ==
    /\ last = "Tick"
    /\ ticks >= TrailMax + 2
    /\ \E i \in 1..Len(particles) :
         /\ particles[i].id = InitialCount + i
         /\ Len(particles[i].trail) = TrailMax

\* C7: after the mount, the space key and a particle count change the store
\* holds exactly particleCount particles, each inside the canvas, with an
\* empty trail and life = maxLife = 1.
ResetProducesCount ==
    last \in { "Mount", "Space", "SetParticleCount" } =>
        /\ Len(particles) = particleCount
        /\ \A i \in 1..Len(particles) :
             /\ 0 <= particles[i].x /\ particles[i].x <= canvas.width
             /\ 0 <= particles[i].y /\ particles[i].y <= canvas.height
             /\ particles[i].trail = << >>
             /\ particles[i].life = 1000
             /\ particles[i].maxLife = 1000

\* the particle count has been changed and the store repopulated
CountChanged ==
    /\ last = "SetParticleCount"
    /\ particleCount # InitialCount
    /\ Len(particles) = particleCount
    /\ ticks = 2

\* the tick of the gravity scenario on particle i
ScenarioTick(i) ==
    /\ last' = "Tick"
    /\ mode = "gravity"
    /\ ~mouse.down
    /\ avgAudio' = 0
    /\ i <= Len(particles')
    /\ particles[i].x = 100000 /\ particles[i].y = 100000
    /\ particles[i].vx = 0 /\ particles[i].vy = 0

\* C8 as stated: the scenario's tick gives ay = 0.1, vy = 0.099,
\* y = 100.099 and leaves x at 100.
GravityScenarioDamped ==
    [][ \A i \in 1..Len(particles) :
          ScenarioTick(i) =>
             /\ particles'[i].ay = 100
             /\ particles'[i].vy = 99
             /\ particles'[i].y = 100099
             /\ particles'[i].x = 100000 ]_vars

\* C8 amended: the scenario's tick gives ay = 0.1, vy = 0.1 (the friction
\* acts on the velocity 0 before the acceleration is added), y = 100.1 and
\* leaves x at 100.
GravityScenario ==
    [][ \A i \in 1..Len(particles) :
          ScenarioTick(i) =>
             /\ particles'[i].ay = 100
             /\ particles'[i].vy = 100
             /\ particles'[i].y = 100100
             /\ particles'[i].x = 100000 ]_vars

\* a particle created at (100, 100) at rest has gone through its first tick
\* in gravity mode, audio 0, pointer not held
ScenarioTicked ==
    /\ last = "Tick"
    /\ ticks = 2
    /\ mode = "gravity"
    /\ ~mouse.down
    /\ avgAudio = 0
    /\ \E i \in 1..Len(particles) :
         /\ particles[i].id = InitialCount + i
         /\ particles[i].x = 100000
         /\ particles[i].vx = 0
         /\ particles[i].ay = 100
         /\ particles[i].y = 100100
         /\ Len(particles[i].trail) = 1

TimeAdvancesOnlyOnTicks ==
    /\ [](time = ticks * TimeStep)
    /\ [][ last' # "Tick" => time' = time ]_vars
    /\ [][ time' >= time ]_vars

\* brightness as line 223 derives it from the velocity with audio energy 0
QuietBrightness(p) ==
    MathMin(100000, Add(50000, Mul(Hypot(p.vx, p.vy), 10000)))

\* q carries the acceleration the switch gives p with audio energy 0
QuietForce(p, q) ==
    \E rnd \in NoiseFor(mode) :
       << q.ax, q.ay >> = Acceleration(p, canvas, 0, Closure(Params, mouse, time'), rnd)

\* C11: while no audio source is attached (audio never requested, or
\* getUserMedia rejected), every tick takes audio energy 0 into the force and
\* brightness computations and makes no fillRect call for a spectrum bar;
\* spectrum bars are drawn only by ticks that run after setupAudio succeeded.
SilentWithoutSource ==
    [][ /\ ~analyser' => avgAudio' = 0 /\ bars' = 0
        /\ bars' > 0 => audioEnabled' /\ analyser'
        /\ last' = "AudioDenied" => ~audioEnabled' /\ ~analyser' /\ bars' = 0
        /\ (last' \in AnimateHandlers /\ mounted /\ ~analyser'
               /\ particleCount' = particleCount) =>
             \A i \in 1..Len(particles') :
                particles'[i].brightness = QuietBrightness(particles'[i])
        /\ (last' = "Tick" /\ mounted /\ ~analyser) =>
             \A i \in 1..Len(particles') : QuietForce(particles[i], particles'[i])
      ]_vars

\* a tick has run in a mode other than gravity with no audio source attached
SilentTick ==
    /\ last = "Tick"
    /\ mounted
    /\ ~analyser
    /\ ~audioEnabled
    /\ mode # "gravity"
    /\ ticks = AudioTicks
    /\ avgAudio = 0
    /\ bars = 0

====
